---- MODULE Spec2Model ----
(***************************************************************************)
(* The assembly pipeline of proksee/pipelines/assemble.py as a state       *)
(* machine: one run of assemble(), stage by stage, over an output          *)
(* directory (fs), the program's standard output (sink) and the values the *)
(* stages hand to each other.  A second specification, CleanupSpec, applies*)
(* cleanup() to arbitrary output directories.                              *)
(***************************************************************************)
EXTENDS Integers, Sequences, FiniteSets, TLC

VARIABLES
    pc,                      \* the statement of assemble() to execute next
    force,                   \* argument force of assemble()
    paired,                  \* whether argument reads holds a reverse file
    platform_name,           \* argument platform_name of assemble()
    fs,                      \* the file system: path -> content, for the paths that exist
    sink,                    \* what has been printed, one entry per print() call
    log,                     \* the stages executed so far, in order
    local,                   \* the local variables of assemble() assigned so far: name -> value
    created,                 \* the paths written by the stages of this run
    fs0,                     \* the file system when assemble() was called
    result                   \* what assemble() returned

vars == <<pc, force, paired, platform_name, fs, sink, log, local, created, fs0, result>>

args == <<force, paired, platform_name, fs0>>

(***************************************************************************)
(* Values                                                                  *)
(***************************************************************************)

\* Python's None, the value of an optional argument that is not given: the
\* empty tuple. A string s given for the argument is Str(s), so that no
\* string, "None" or another, is taken for None.
None == <<>>

Str(s) == <<s>>

\* Python's truth value of an optional string: None and "" are false.
Truthy(name) == name # None /\ name[1] # ""

\* Bound: the longest species list determine_species returns.
MaxSpecies == 2

\* The paths of the output directory.
OUTPUT_DIRECTORY == "output"
FASTA_DIRECTORY == "output/fasta"
LOGFILE_FILENAME == "output/fastp.log"
FWD_FILTERED_FILENAME == "output/fwd_filtered.fastq"
REV_FILTERED_FILENAME == "output/rev_filtered.fastq"
SPECIES_OUTPUT_FILENAME == "output/mash.o"
MEASURER_OUTPUT_FILENAME == "output/quast.out"
MEASURER_ERROR_FILENAME == "output/quast.err"
SKESA_DIRECTORY == "output/skesa"
SPADES_DIRECTORY == "output/spades"
SKESA_CONTIGS == "output/skesa/contigs.fasta"
SPADES_CONTIGS == "output/spades/contigs.fasta"
QUAST_DIRECTORY == "output/quast"
QUAST_REPORT == "output/quast/report.txt"
CONTIGS_NEW_FILENAME == "output/contigs.fasta"
CSV_FILENAME == "output/assembly_statistics.csv"
JSON_FILENAME == "output/assembly_info.json"

\* The paths cleanup() looks at.
ScratchArtifacts ==
    {FASTA_DIRECTORY, LOGFILE_FILENAME, FWD_FILTERED_FILENAME, REV_FILTERED_FILENAME,
     SPECIES_OUTPUT_FILENAME, MEASURER_OUTPUT_FILENAME, MEASURER_ERROR_FILENAME,
     SKESA_DIRECTORY, SPADES_DIRECTORY}

Directories ==
    {OUTPUT_DIRECTORY, FASTA_DIRECTORY, SKESA_DIRECTORY, SPADES_DIRECTORY, QUAST_DIRECTORY}

\* The paths below directory d.
Under(d) ==
    CASE d = OUTPUT_DIRECTORY ->
            ScratchArtifacts \cup {SKESA_CONTIGS, SPADES_CONTIGS, QUAST_DIRECTORY,
                                   QUAST_REPORT, CONTIGS_NEW_FILENAME, CSV_FILENAME,
                                   JSON_FILENAME}
      [] d = SKESA_DIRECTORY -> {SKESA_CONTIGS}
      [] d = SPADES_DIRECTORY -> {SPADES_CONTIGS}
      [] d = QUAST_DIRECTORY -> {QUAST_REPORT}
      [] OTHER -> {}

(***************************************************************************)
(* The file system: os.path, os, shutil                                    *)
(***************************************************************************)

\* The content of a path is a tuple of strings: Dir for a directory, and for a file
\* the words that tell who wrote it.
Dir == <<"directory">>

isdir(f, p) == p \in DOMAIN f /\ f[p] = Dir

isfile(f, p) == p \in DOMAIN f /\ f[p] # Dir

\* The file system f with path p holding content c.
Put(f, p, c) == [q \in DOMAIN f \cup {p} |-> IF q = p THEN c ELSE f[q]]

\* The file system f without the paths of S.
Without(f, S) == [q \in DOMAIN f \ S |-> f[q]]

\* A process is its file system and whether a call has raised; a call on a
\* process that has raised does nothing (the exception propagates).
Process(f) == [fs |-> f, raised |-> FALSE]

\* os.remove(p): FileNotFoundError when p does not exist.
os_remove(s, p) ==
    IF s.raised THEN s
    ELSE IF isfile(s.fs, p) THEN [s EXCEPT !.fs = Without(s.fs, {p})]
    ELSE [s EXCEPT !.raised = TRUE]

\* shutil.rmtree(d): removes d and everything below it; raises when d is no directory.
rmtree(s, d) ==
    IF s.raised THEN s
    ELSE IF isdir(s.fs, d) THEN [s EXCEPT !.fs = Without(s.fs, {d} \cup Under(d))]
    ELSE [s EXCEPT !.raised = TRUE]

\* The directory that holds path p of the output directory's layout.
Parent(p) ==
    CASE p = SKESA_CONTIGS -> SKESA_DIRECTORY
      [] p = SPADES_CONTIGS -> SPADES_DIRECTORY
      [] p = QUAST_REPORT -> QUAST_DIRECTORY
      [] OTHER -> OUTPUT_DIRECTORY

\* The last component of path p of the output directory's layout.
Name(p) ==
    CASE p = FASTA_DIRECTORY -> "fasta"
      [] p = LOGFILE_FILENAME -> "fastp.log"
      [] p = FWD_FILTERED_FILENAME -> "fwd_filtered.fastq"
      [] p = REV_FILTERED_FILENAME -> "rev_filtered.fastq"
      [] p = SPECIES_OUTPUT_FILENAME -> "mash.o"
      [] p = MEASURER_OUTPUT_FILENAME -> "quast.out"
      [] p = MEASURER_ERROR_FILENAME -> "quast.err"
      [] p = SKESA_DIRECTORY -> "skesa"
      [] p = SPADES_DIRECTORY -> "spades"
      [] p \in {SKESA_CONTIGS, SPADES_CONTIGS, CONTIGS_NEW_FILENAME} -> "contigs.fasta"
      [] p = QUAST_DIRECTORY -> "quast"
      [] p = QUAST_REPORT -> "report.txt"
      [] p = CSV_FILENAME -> "assembly_statistics.csv"
      [] p = JSON_FILENAME -> "assembly_info.json"

\* Path p, which lies below directory d, as it is named from d.
RECURSIVE Relative(_, _)
Relative(d, p) ==
    IF Parent(p) = d THEN Name(p) ELSE Relative(d, Parent(p)) \o "/" \o Name(p)

\* os.mkdir(p): FileExistsError when p exists, as a directory or as a file;
\* FileNotFoundError when the directory that is to hold p does not exist.
os_mkdir(s, p) ==
    IF s.raised THEN s
    ELSE IF \/ p \in DOMAIN s.fs
            \/ p # OUTPUT_DIRECTORY /\ ~isdir(s.fs, Parent(p))
         THEN [s EXCEPT !.raised = TRUE]
    ELSE [s EXCEPT !.fs = Put(s.fs, p, Dir)]

\* os.rename(src, dst) as POSIX has it. It raises when src does not exist or
\* the directory of dst does not; a file replaces a file and raises on a
\* directory; a directory moves with all that lies below it, replaces an empty
\* directory, and raises on a file, on a directory that is not empty and on a
\* path below itself.
os_rename(s, src, dst) ==
    IF s.raised THEN s
    ELSE IF src \notin DOMAIN s.fs THEN [s EXCEPT !.raised = TRUE]
    ELSE IF dst # OUTPUT_DIRECTORY /\ ~isdir(s.fs, Parent(dst))
         THEN [s EXCEPT !.raised = TRUE]
    ELSE IF src = dst THEN s
    ELSE IF isfile(s.fs, src)
         THEN IF isdir(s.fs, dst)
              THEN [s EXCEPT !.raised = TRUE]
              ELSE [s EXCEPT !.fs = Put(Without(s.fs, {src}), dst, s.fs[src])]
    ELSE IF \/ isfile(s.fs, dst)
            \/ dst \in Under(src)
            \/ isdir(s.fs, dst) /\ Under(dst) \cap DOMAIN s.fs # {}
         THEN [s EXCEPT !.raised = TRUE]
    ELSE LET below == Under(src) \cap DOMAIN s.fs
             rest == Without(s.fs, {src} \cup below)
             moved(p) == dst \o "/" \o Relative(src, p)
         IN  [s EXCEPT !.fs =
                 [q \in DOMAIN rest \cup {dst} \cup {moved(p) : p \in below} |->
                     IF q = dst THEN Dir
                     ELSE IF \E p \in below : moved(p) = q
                          THEN s.fs[CHOOSE p \in below : moved(p) = q]
                          ELSE rest[q]]]

\* Mutant of RemoveIfFile: os.remove(p) without the test that p exists.
RemoveUnguarded(s, p) == os_remove(s, p)

\* if os.path.isfile(p): os.remove(p)
\* (x is s, computed once)
RemoveIfFile(s, p) ==
    CHOOSE after \in {IF isfile(x.fs, p) THEN os_remove(x, p) ELSE x : x \in {s}} : TRUE

\* if os.path.isdir(d): rmtree(d)
\* (x is s, computed once)
RmtreeIfDir(s, d) ==
    CHOOSE after \in {IF isdir(x.fs, d) THEN rmtree(x, d) ELSE x : x \in {s}} : TRUE

\* Mutant of cleanup: the species-estimation output is not removed.
cleanupKeepingSpeciesOutput(s) ==
    LET s1 == RmtreeIfDir(s, FASTA_DIRECTORY)
        s2 == RemoveIfFile(s1, LOGFILE_FILENAME)
        s3 == RemoveIfFile(s2, FWD_FILTERED_FILENAME)
        s4 == RemoveIfFile(s3, REV_FILTERED_FILENAME)
        s6 == RemoveIfFile(s4, MEASURER_OUTPUT_FILENAME)
        s7 == RemoveIfFile(s6, MEASURER_ERROR_FILENAME)
        s8 == RmtreeIfDir(s7, SKESA_DIRECTORY)
        s9 == RmtreeIfDir(s8, SPADES_DIRECTORY)
    IN  s9

\* cleanup(output_directory), on process s.
cleanup(s) ==
    LET s1 == RmtreeIfDir(s, FASTA_DIRECTORY)
        s2 == RemoveIfFile(s1, LOGFILE_FILENAME)
        s3 == RemoveIfFile(s2, FWD_FILTERED_FILENAME)
        s4 == RemoveIfFile(s3, REV_FILTERED_FILENAME)
        s5 == RemoveIfFile(s4, SPECIES_OUTPUT_FILENAME)
        s6 == RemoveIfFile(s5, MEASURER_OUTPUT_FILENAME)
        s7 == RemoveIfFile(s6, MEASURER_ERROR_FILENAME)
        s8 == RmtreeIfDir(s7, SKESA_DIRECTORY)
        s9 == RmtreeIfDir(s8, SPADES_DIRECTORY)
    IN  s9

(***************************************************************************)
(* The stage executors.  Their code is outside proksee/pipelines: each is  *)
(* modelled by the files it leaves in the output directory and the value   *)
(* it returns.                                                             *)
(***************************************************************************)

Platforms == {"Illumina", "Unidentifiable"}

\* The values of argument platform_name: not given, the empty string, a
\* recognized name, an unrecognized one.
PlatformNames == {None, Str(""), Str("illumina"), Str("nanopore9000")}

\* identify_name(platform_name)
identify_name(name) == IF name = "illumina" THEN "Illumina" ELSE "Unidentifiable"

SpeciesNames == {"Unknown", "Escherichia coli"}

\* The lists determine_species may return: never empty, no species twice,
\* the best guess first.
SpeciesLists ==
    {sl \in UNION {[1..n -> SpeciesNames] : n \in 1..MaxSpecies} :
        \A i, j \in 1..Len(sl) : sl[i] = sl[j] => i = j}

Assemblers == {"skesa", "spades"}

\* SkesaAssembler.DIRECTORY_NAME, SpadesAssembler.DIRECTORY_NAME
DirectoryOf(a) == IF a = "skesa" THEN SKESA_DIRECTORY ELSE SPADES_DIRECTORY

\* assembler.contigs_filename, assembler.get_contigs_filename()
ContigsOf(a) == IF a = "skesa" THEN SKESA_CONTIGS ELSE SPADES_CONTIGS

\* ReadFilterer.filter_reads(): the logfile and one filtered file per read file.
filter_reads(f, isPaired) ==
    LET f1 == Put(f, LOGFILE_FILENAME, <<"fastp log">>)
        f2 == Put(f1, FWD_FILTERED_FILENAME, <<"filtered reads">>)
    IN  IF isPaired THEN Put(f2, REV_FILTERED_FILENAME, <<"filtered reads">>) ELSE f2

\* utilities.determine_species(): the species-estimation output file.
determine_species(f) == Put(f, SPECIES_OUTPUT_FILENAME, <<"species estimation">>)

\* assembler.assemble() for strategy which ("fast" or "expert"): the work
\* directory with the contigs file in it.
assemble_contigs(f, which, a) ==
    Put(Put(f, DirectoryOf(a), Dir), ContigsOf(a), <<"contigs", which, a>>)

\* ContaminationHandler.estimate_contamination(): the FASTA directory.
estimate_contamination(f) == Put(f, FASTA_DIRECTORY, Dir)

\* AssemblyMeasurer.measure_quality(): the two scratch files and the report directory.
measure_quality_files(f) ==
    LET f1 == Put(f, MEASURER_OUTPUT_FILENAME, <<"quast out">>)
        f2 == Put(f1, MEASURER_ERROR_FILENAME, <<"quast err">>)
        f3 == Put(f2, QUAST_DIRECTORY, Dir)
    IN  Put(f3, QUAST_REPORT, <<"quast report">>)

\* AssemblyMeasurer(contigs_filename, ...).measure_quality(): the metrics of
\* the contigs the file holds.
measure_quality(f, contigs_filename) ==
    IF isfile(f, contigs_filename) THEN <<"metrics of">> \o f[contigs_filename]
    ELSE <<"metrics of nothing">>

\* AssemblyStatisticsWriter.write_csv(names, qualities)
write_csv(f, names, qualities) ==
    Put(f, CSV_FILENAME, <<"csv">> \o names \o qualities[1] \o qualities[2])

\* AssemblyStatisticsWriter.write_json(..., assembly_quality, ...)
write_json(f, quality) == Put(f, JSON_FILENAME, <<"json">> \o quality)

\* AssemblyStrategy(proceed, assembler, report)
AssemblyStrategy(proceed, a, report) ==
    [proceed |-> proceed, assembler |-> a, report |-> report]

\* Evaluation(success, report)
Evaluation(success, report) == [success |-> success, report |-> report]

\* AssemblySummary(species, assembly_quality, contigs_filename), as the tuple of
\* its fields: what it is, the species, the contigs file, the quality metrics.
AssemblySummary(species, quality, contigs_filename) ==
    <<"AssemblySummary", species, contigs_filename>> \o quality

\* What assemble() has returned: nothing yet, or None.
Pending == <<"pending">>
ReturnedNone == <<"None">>

(***************************************************************************)
(* The report functions: each returns the entries it prints, in order.     *)
(***************************************************************************)

Min(a, b) == IF a < b THEN a ELSE b

Word(b) == IF b THEN "True" ELSE "False"

NOT_FASTQ == <<"One or both of the reads are not in FASTQ format.">>
VALID_FASTQ == <<"The reads appear to be formatted correctly.">>
UNABLE_TO_PROCEED == <<"The assembly was unable to proceed.\n">>
ADDITIONAL_SPECIES ==
    <<"\nWARNING: Additional high-confidence species were found in the input data:\n">>
UNKNOWN_SPECIES ==
    <<"\nWARNING: A species could not be determined with high confidence from the input data.">>
BLANK_LINE == <<"">>
PERFORMING_EXPERT == <<"Performing expert assembly.">>
COMPLETE == <<"Complete.\n">>

\* Mutant of report_valid_fastq: the test of valid is inverted.
report_valid_fastq_inverted(valid) == IF valid THEN <<NOT_FASTQ>> ELSE <<VALID_FASTQ>>

report_valid_fastq(valid) == IF ~valid THEN <<NOT_FASTQ>> ELSE <<VALID_FASTQ>>

report_platform(p) == << <<"Sequencing Platform: ", p>> >>

\* The loop of report_species rebinds the name species, so the test for
\* "Unknown" reads the last species the loop printed.
report_species(sl) ==
    LET last == Min(5, Len(sl))
        additional ==
            IF Len(sl) > 1
            THEN <<ADDITIONAL_SPECIES>> \o [i \in 1..(last - 1) |-> <<sl[i + 1]>>]
            ELSE <<>>
        species == IF Len(sl) > 1 /\ last > 1 THEN sl[last] ELSE sl[1]
        unknown == IF species = "Unknown" THEN <<UNKNOWN_SPECIES>> ELSE <<>>
    IN  << <<"SPECIES: ", sl[1]>> >> \o additional \o unknown \o <<BLANK_LINE>>

\* Mutant of report_strategy: the line saying that the assembly was unable to
\* proceed is missing.
report_strategy_silent(strategy) == <<strategy.report>>

report_strategy(strategy) ==
    <<strategy.report>> \o (IF ~strategy.proceed THEN <<UNABLE_TO_PROCEED>> ELSE <<>>)

report_contamination(ev) ==
    <<ev.report>> \o (IF ~ev.success THEN <<UNABLE_TO_PROCEED>> ELSE <<>>)

\* determine_platform(reads, platform_name); identified is what
\* PlatformIdentifier(reads).identify() returns when it is called.
ATTEMPTING_TO_IDENTIFY ==
    <<"\nAttempting to identify the sequencing platform from the reads.">>

\* Mutant of determine_platform: the platform is identified from the reads
\* whether or not the name was recognized.
determine_platform_always_identifying(identified, name) ==
    [platform |-> identified, inspected |-> TRUE, prints |-> <<ATTEMPTING_TO_IDENTIFY>>]

determine_platform(identified, name) ==
    LET named == IF Truthy(name) THEN identify_name(name[1]) ELSE "Unidentifiable"
        said == IF ~Truthy(name) THEN <<>>
                ELSE IF named = "Unidentifiable"
                     THEN << <<"\nThe platform name '", name[1], "' is unrecognized.">>,
                             <<"Please see the help message for valid platform names.">> >>
                     ELSE << <<"\nThe platform name '", name[1], "' was recognized.">> >>
    IN  IF named = "Unidentifiable"
        THEN [platform |-> identified, inspected |-> TRUE,
              prints |-> said \o
                  <<ATTEMPTING_TO_IDENTIFY>>]
        ELSE [platform |-> named, inspected |-> FALSE, prints |-> said]

(***************************************************************************)
(* The output directory assemble() is given                                *)
(***************************************************************************)

\* No local variable of assemble() is assigned.
NoLocals == [name \in {} |-> None]

\* The local variables l after name = value.
Assign(l, name, value) ==
    [n \in DOMAIN l \cup {name} |-> IF n = name THEN value ELSE l[n]]

\* The output directory does not exist.
NoDirectory == [p \in {} |-> Dir]

\* The output directory exists and is empty.
EmptyDirectory == Put(NoDirectory, OUTPUT_DIRECTORY, Dir)

\* The output directory as an earlier completed run left it.
CompletedDirectory ==
    LET f1 == Put(EmptyDirectory, CONTIGS_NEW_FILENAME, <<"earlier run">>)
        f2 == Put(f1, CSV_FILENAME, <<"earlier run">>)
        f3 == Put(f2, JSON_FILENAME, <<"earlier run">>)
        f4 == Put(f3, QUAST_DIRECTORY, Dir)
    IN  Put(f4, QUAST_REPORT, <<"earlier run">>)

\* The output directory as an earlier run that halted at the contamination gate left it.
HaltedDirectory ==
    LET f1 == Put(EmptyDirectory, LOGFILE_FILENAME, <<"earlier run">>)
        f2 == Put(f1, FWD_FILTERED_FILENAME, <<"earlier run">>)
        f3 == Put(f2, REV_FILTERED_FILENAME, <<"earlier run">>)
        f4 == Put(f3, SPECIES_OUTPUT_FILENAME, <<"earlier run">>)
        f5 == Put(f4, SPADES_DIRECTORY, Dir)
        f6 == Put(f5, SPADES_CONTIGS, <<"earlier run">>)
    IN  Put(f6, FASTA_DIRECTORY, Dir)

\* The path of the output directory is that of a regular file.
FileAtOutputDirectory == Put(NoDirectory, OUTPUT_DIRECTORY, <<"file">>)

InitialDirectories ==
    {NoDirectory, EmptyDirectory, CompletedDirectory, HaltedDirectory, FileAtOutputDirectory}

(***************************************************************************)
(* assemble(): the state when it is called                                 *)
(***************************************************************************)

Init ==
    /\ pc = "mkdir"
    /\ force \in BOOLEAN
    /\ paired \in BOOLEAN
    /\ platform_name \in PlatformNames
    /\ fs \in InitialDirectories
    /\ fs0 = fs
    /\ sink = <<>>
    /\ log = <<>>
    /\ created = {}
    /\ local = NoLocals
    /\ result = Pending

\* The stage named stage runs: it is logged, prints entries, and leaves the
\* file system as f, having written the paths of written.
Stage(stage, entries, f, written) ==
    /\ log' = Append(log, stage)
    /\ sink' = sink \o entries
    /\ fs' = f
    /\ created' = created \cup written
    /\ UNCHANGED args

\* Mutant of Halt: the early return hands back a summary of the contigs path.
HaltWithSummary ==
    /\ pc' = "halted"
    /\ result' = AssemblySummary("Unknown", <<"metrics of nothing">>, CONTIGS_NEW_FILENAME)

\* "return" in front of the end: assemble() returns None.
Halt == pc' = "halted" /\ result' = ReturnedNone

Continue(next) == pc' = next /\ UNCHANGED result

(***************************************************************************)
(* assemble(): one action per stage                                        *)
(***************************************************************************)

\* Lines 260-262: make the output directory.
\* Mutant of MakeOutputDirectory: an output directory that exists is emptied.
MakeOutputDirectoryAfresh ==
    /\ pc = "mkdir"
    /\ Stage("mkdir", <<>>, EmptyDirectory,
             IF ~isdir(fs, OUTPUT_DIRECTORY) THEN {OUTPUT_DIRECTORY} ELSE {})
    /\ Continue("validate")
    /\ UNCHANGED local

MakeOutputDirectory ==
    /\ pc = "mkdir"
    /\ LET made == IF ~isdir(fs, OUTPUT_DIRECTORY)
                   THEN os_mkdir(Process(fs), OUTPUT_DIRECTORY)
                   ELSE Process(fs) IN
        /\ Stage("mkdir", <<>>, made.fs,
                 IF ~isdir(fs, OUTPUT_DIRECTORY) /\ ~made.raised
                 THEN {OUTPUT_DIRECTORY} ELSE {})
        /\ IF made.raised THEN pc' = "raised" /\ UNCHANGED result ELSE Continue("validate")
    /\ UNCHANGED local

\* Mutant of ValidateFastq: the gate is missing.
ValidateFastqWithoutGate ==
    /\ pc = "validate"
    /\ \E valid \in BOOLEAN :
        /\ local' = Assign(local, "valid_fastq", valid)
        /\ Stage("validate", report_valid_fastq(valid), fs, {})
        /\ Continue("platform")

\* Lines 264-269: validate the FASTQ inputs; the first gate.
ValidateFastq ==
    /\ pc = "validate"
    /\ \E valid \in BOOLEAN :
        /\ local' = Assign(local, "valid_fastq", valid)
        /\ Stage("validate", report_valid_fastq(valid), fs, {})
        /\ IF ~valid /\ ~force THEN Halt ELSE Continue("platform")

\* Lines 271-272: determine and report the platform.
DeterminePlatform ==
    /\ pc = "platform"
    /\ \E identified \in Platforms :
        LET d == determine_platform(identified, platform_name) IN
        /\ local' = Assign(local, "platform", d.platform)
        /\ Stage("platform", d.prints \o report_platform(d.platform), fs, {})
    /\ Continue("filter")

\* Lines 274-277: filter the reads.
FilterReads ==
    /\ pc = "filter"
    /\ Stage("filter", <<>>, filter_reads(fs, paired),
             {LOGFILE_FILENAME, FWD_FILTERED_FILENAME}
                 \cup (IF paired THEN {REV_FILTERED_FILENAME} ELSE {}))
    /\ Continue("species")
    /\ UNCHANGED local

\* Lines 279-287: estimate and report the species.
EstimateSpecies ==
    /\ pc = "species"
    /\ \E sl \in SpeciesLists :
        /\ local' = Assign(local, "species_list", sl)
        /\ Stage("species", report_species(sl), determine_species(fs),
                 {SPECIES_OUTPUT_FILENAME})
    /\ Continue("fast_strategy")

\* Mutant of DeriveFastStrategy: the contamination check follows at once, before
\* the fast assembly.
DeriveFastStrategyThenContamination ==
    /\ pc = "fast_strategy"
    /\ \E proceed \in BOOLEAN, a \in Assemblers :
        LET strategy == AssemblyStrategy(proceed, a, <<"fast strategy", a, Word(proceed)>>) IN
        /\ local' = Assign(local, "fast_strategy", strategy)
        /\ Stage("fast_strategy", report_strategy(strategy), fs, {})
        /\ IF ~strategy.proceed /\ ~force THEN Halt ELSE Continue("contamination")

\* Mutant of DeriveFastStrategy: the gate halts when force is set, not when it is not.
DeriveFastStrategyForceInverted ==
    /\ pc = "fast_strategy"
    /\ \E proceed \in BOOLEAN, a \in Assemblers :
        LET strategy == AssemblyStrategy(proceed, a, <<"fast strategy", a, Word(proceed)>>) IN
        /\ local' = Assign(local, "fast_strategy", strategy)
        /\ Stage("fast_strategy", report_strategy(strategy), fs, {})
        /\ IF ~strategy.proceed /\ force THEN Halt ELSE Continue("fast_assembly")

\* Lines 289-295: derive and report the fast strategy; the second gate.
DeriveFastStrategy ==
    /\ pc = "fast_strategy"
    /\ \E proceed \in BOOLEAN, a \in Assemblers :
        LET strategy == AssemblyStrategy(proceed, a, <<"fast strategy", a, Word(proceed)>>) IN
        /\ local' = Assign(local, "fast_strategy", strategy)
        /\ Stage("fast_strategy", report_strategy(strategy), fs, {})
        /\ IF ~strategy.proceed /\ ~force THEN Halt ELSE Continue("fast_assembly")

\* Lines 297-300: perform the fast assembly.
FastAssembly ==
    /\ pc = "fast_assembly"
    /\ local' = Assign(local, "assembler", local.fast_strategy.assembler)
    /\ Stage("fast_assembly", << <<"output of", local.fast_strategy.assembler>> >>,
             assemble_contigs(fs, "fast", local.fast_strategy.assembler),
             {DirectoryOf(local.fast_strategy.assembler),
              ContigsOf(local.fast_strategy.assembler)})
    /\ Continue("contamination")

\* Mutant of CheckContamination: the output directory is cleaned up before the
\* early return.
CheckContaminationCleaningUp ==
    /\ pc = "contamination"
    /\ \E success \in BOOLEAN :
        LET ev == Evaluation(success, <<"contamination report", Word(success)>>) IN
        /\ local' = Assign(local, "evaluation", ev)
        /\ IF ~ev.success /\ ~force
           THEN /\ Stage("contamination", report_contamination(ev),
                         cleanup(Process(estimate_contamination(fs))).fs, {FASTA_DIRECTORY})
                /\ Halt
           ELSE /\ Stage("contamination", report_contamination(ev),
                         estimate_contamination(fs), {FASTA_DIRECTORY})
                /\ Continue("fast_measure")

\* Mutant of CheckContamination: the gate does not look at force.
CheckContaminationIgnoringForce ==
    /\ pc = "contamination"
    /\ \E success \in BOOLEAN :
        LET ev == Evaluation(success, <<"contamination report", Word(success)>>) IN
        /\ local' = Assign(local, "evaluation", ev)
        /\ Stage("contamination", report_contamination(ev), estimate_contamination(fs),
                 {FASTA_DIRECTORY})
        /\ IF ~ev.success THEN Halt ELSE Continue("fast_measure")

\* Mutant of CheckContamination: the gate is missing.
CheckContaminationWithoutGate ==
    /\ pc = "contamination"
    /\ \E success \in BOOLEAN :
        LET ev == Evaluation(success, <<"contamination report", Word(success)>>) IN
        /\ local' = Assign(local, "evaluation", ev)
        /\ Stage("contamination", report_contamination(ev), estimate_contamination(fs),
                 {FASTA_DIRECTORY})
        /\ Continue("fast_measure")

\* Lines 302-309: check for contamination; the third gate.
CheckContamination ==
    /\ pc = "contamination"
    /\ \E success \in BOOLEAN :
        LET ev == Evaluation(success, <<"contamination report", Word(success)>>) IN
        /\ local' = Assign(local, "evaluation", ev)
        /\ Stage("contamination", report_contamination(ev), estimate_contamination(fs),
                 {FASTA_DIRECTORY})
        /\ IF ~ev.success /\ ~force THEN Halt ELSE Continue("fast_measure")

\* Lines 311-313: measure the quality of the fast assembly.
MeasureFastAssembly ==
    /\ pc = "fast_measure"
    /\ local' = Assign(local, "fast_assembly_quality",
                       measure_quality(fs, ContigsOf(local.assembler)))
    /\ Stage("fast_measure", <<>>, measure_quality_files(fs),
             {MEASURER_OUTPUT_FILENAME, MEASURER_ERROR_FILENAME, QUAST_DIRECTORY,
              QUAST_REPORT})
    /\ Continue("fast_ml")

\* Lines 315-318: machine learning evaluation of the fast assembly.
EvaluateFastAssembly ==
    /\ pc = "fast_ml"
    /\ \E success \in BOOLEAN :
        LET ev == Evaluation(success, <<"machine learning report", Word(success)>>
                                          \o local.fast_assembly_quality) IN
        /\ local' = Assign(local, "evaluation", ev)
        /\ Stage("fast_ml", <<ev.report>>, fs, {})
    /\ Continue("expert_strategy")

\* Mutant of DeriveExpertStrategy: when the strategy says not to proceed, the
\* strategy is derived once more.
DeriveExpertStrategyRetrying ==
    /\ pc = "expert_strategy"
    /\ \E proceed \in BOOLEAN, a \in Assemblers :
        LET strategy == AssemblyStrategy(proceed, a,
                            <<"expert strategy", a, Word(proceed)>>
                                \o local.fast_assembly_quality) IN
        /\ local' = Assign(local, "expert_strategy", strategy)
        /\ Stage("expert_strategy", report_strategy(strategy), fs, {})
        /\ IF ~strategy.proceed /\ ~force
           THEN Continue("expert_strategy")
           ELSE Continue("expert_assembly")

\* Lines 320-325: derive and report the expert strategy; the fourth gate.
DeriveExpertStrategy ==
    /\ pc = "expert_strategy"
    /\ \E proceed \in BOOLEAN, a \in Assemblers :
        LET strategy == AssemblyStrategy(proceed, a,
                            <<"expert strategy", a, Word(proceed)>>
                                \o local.fast_assembly_quality) IN
        /\ local' = Assign(local, "expert_strategy", strategy)
        /\ Stage("expert_strategy", report_strategy(strategy), fs, {})
        /\ IF ~strategy.proceed /\ ~force THEN Halt ELSE Continue("expert_assembly")

\* Lines 327-330: perform the expert assembly.
ExpertAssembly ==
    /\ pc = "expert_assembly"
    /\ local' = Assign(local, "assembler", local.expert_strategy.assembler)
    /\ Stage("expert_assembly",
             <<PERFORMING_EXPERT, <<"output of", local.expert_strategy.assembler>> >>,
             assemble_contigs(fs, "expert", local.expert_strategy.assembler),
             {DirectoryOf(local.expert_strategy.assembler),
              ContigsOf(local.expert_strategy.assembler)})
    /\ Continue("expert_measure")

\* Lines 332-334: measure the quality of the expert assembly.
MeasureExpertAssembly ==
    /\ pc = "expert_measure"
    /\ local' = Assign(local, "expert_assembly_quality",
                       measure_quality(fs, ContigsOf(local.assembler)))
    /\ Stage("expert_measure", <<>>, measure_quality_files(fs),
             {MEASURER_OUTPUT_FILENAME, MEASURER_ERROR_FILENAME, QUAST_DIRECTORY,
              QUAST_REPORT})
    /\ Continue("expert_ml")

\* Lines 336-338: machine learning evaluation of the expert assembly.
EvaluateExpertAssembly ==
    /\ pc = "expert_ml"
    /\ \E success \in BOOLEAN :
        LET ev == Evaluation(success, <<"machine learning report", Word(success)>>
                                          \o local.expert_assembly_quality) IN
        /\ local' = Assign(local, "machine_learning_evaluation", ev)
        /\ Stage("expert_ml", <<ev.report>>, fs, {})
    /\ Continue("heuristic")

\* Mutant of EvaluateHeuristically: a failed evaluation halts the run unless forced.
EvaluateHeuristicallyGating ==
    /\ pc = "heuristic"
    /\ \E success \in BOOLEAN :
        LET ev == Evaluation(success, <<"heuristic report", Word(success)>>
                                          \o local.expert_assembly_quality) IN
        /\ local' = Assign(local, "heuristic_evaluation", ev)
        /\ Stage("heuristic", <<ev.report>>, fs, {})
        /\ IF ~ev.success /\ ~force THEN Halt ELSE Continue("compare")

\* Lines 340-343: heuristic evaluation of the expert assembly.
EvaluateHeuristically ==
    /\ pc = "heuristic"
    /\ \E success \in BOOLEAN :
        LET ev == Evaluation(success, <<"heuristic report", Word(success)>>
                                          \o local.expert_assembly_quality) IN
        /\ local' = Assign(local, "heuristic_evaluation", ev)
        /\ Stage("heuristic", <<ev.report>>, fs, {})
    /\ Continue("compare")

\* Lines 345-347: compare the fast and the expert assembly.
CompareAssemblies ==
    /\ pc = "compare"
    /\ Stage("compare",
             << <<"comparison of">> \o local.fast_assembly_quality
                                    \o local.expert_assembly_quality >>,
             fs, {})
    /\ Continue("write_csv")
    /\ UNCHANGED local

\* Lines 349-352: write the CSV assembly statistics.
WriteCsv ==
    /\ pc = "write_csv"
    /\ Stage("write_csv", <<>>,
             write_csv(fs, <<local.fast_strategy.assembler, local.expert_strategy.assembler>>,
                       <<local.fast_assembly_quality, local.expert_assembly_quality>>),
             {CSV_FILENAME})
    /\ Continue("write_json")
    /\ UNCHANGED local

\* Mutant of WriteJson: the clean-up follows at once, before the contigs are moved.
WriteJsonThenCleanUp ==
    /\ pc = "write_json"
    /\ Stage("write_json", <<>>, write_json(fs, local.expert_assembly_quality), {JSON_FILENAME})
    /\ Continue("cleanup")
    /\ UNCHANGED local

\* Lines 354-356: write the JSON file of the expert assembly.
WriteJson ==
    /\ pc = "write_json"
    /\ Stage("write_json", <<>>, write_json(fs, local.expert_assembly_quality), {JSON_FILENAME})
    /\ Continue("move_contigs")
    /\ UNCHANGED local

\* Mutant of MoveContigs: the contigs of the fast strategy's assembler are moved.
MoveContigsOfFastStrategy ==
    /\ pc = "move_contigs"
    /\ LET moved == os_rename(Process(fs), ContigsOf(local.fast_strategy.assembler),
                              CONTIGS_NEW_FILENAME) IN
        /\ Stage("move_contigs", <<>>, moved.fs,
                 IF moved.raised THEN {} ELSE {CONTIGS_NEW_FILENAME})
        /\ IF moved.raised THEN pc' = "raised" /\ UNCHANGED result ELSE Continue("cleanup")
    /\ UNCHANGED local

\* Lines 358-361: move the final contigs to the main level of the output directory.
MoveContigs ==
    /\ pc = "move_contigs"
    /\ LET moved == os_rename(Process(fs), ContigsOf(local.assembler),
                              CONTIGS_NEW_FILENAME) IN
        /\ Stage("move_contigs", <<>>, moved.fs,
                 IF moved.raised THEN {} ELSE {CONTIGS_NEW_FILENAME})
        /\ IF moved.raised THEN pc' = "raised" /\ UNCHANGED result ELSE Continue("cleanup")
    /\ UNCHANGED local

\* Lines 363-364: clean up the output directory.
CleanUp ==
    /\ pc = "cleanup"
    /\ LET cleaned == cleanup(Process(fs)) IN
        /\ Stage("cleanup", <<>>, cleaned.fs, {})
        /\ IF cleaned.raised THEN pc' = "raised" /\ UNCHANGED result ELSE Continue("return")
    /\ UNCHANGED local

\* Lines 366-367: report completion and return the summary.
Return ==
    /\ pc = "return"
    /\ Stage("return", <<COMPLETE>>, fs, {})
    /\ pc' = "done"
    /\ result' = AssemblySummary(local.species_list[1], local.expert_assembly_quality,
                                 CONTIGS_NEW_FILENAME)
    /\ UNCHANGED local

Next ==
    \/ MakeOutputDirectory
    \/ ValidateFastq
    \/ DeterminePlatform
    \/ FilterReads
    \/ EstimateSpecies
    \/ DeriveFastStrategy
    \/ FastAssembly
    \/ CheckContamination
    \/ MeasureFastAssembly
    \/ EvaluateFastAssembly
    \/ DeriveExpertStrategy
    \/ ExpertAssembly
    \/ MeasureExpertAssembly
    \/ EvaluateExpertAssembly
    \/ EvaluateHeuristically
    \/ CompareAssemblies
    \/ WriteCsv
    \/ WriteJson
    \/ MoveContigs
    \/ CleanUp
    \/ Return

Spec == Init /\ [][Next]_vars

\* Every stage is a call that returns, so a run that can take a step does.
\* (Every step of Next changes pc.)
FairSpec == Spec /\ WF_pc(Next)

(***************************************************************************)
(* cleanup() called twice in a row on an arbitrary output directory        *)
(***************************************************************************)

\* The paths an output directory given to cleanup() may hold.
CleanupPaths ==
    ScratchArtifacts \cup {SKESA_CONTIGS, SPADES_CONTIGS, QUAST_DIRECTORY,
                           CONTIGS_NEW_FILENAME}

\* The output directory holding exactly the paths of S.
DirectoryWith(S) ==
    [p \in S \cup {OUTPUT_DIRECTORY} |-> IF p \in Directories THEN Dir ELSE <<"file">>]

\* Every output directory: a path below a directory exists only when the directory does.
CleanupDirectories ==
    {DirectoryWith(S) : S \in {T \in SUBSET CleanupPaths :
        \A d \in Directories \ {OUTPUT_DIRECTORY} : Under(d) \cap T # {} => d \in T}}

CleanupInit ==
    /\ pc = "first_call"
    /\ fs \in CleanupDirectories
    /\ fs0 = fs
    /\ force = FALSE
    /\ paired = FALSE
    /\ platform_name = None
    /\ sink = <<>>
    /\ log = <<>>
    /\ created = {}
    /\ local = NoLocals
    /\ result = Pending

\* A call of cleanup(output_directory) that leaves the caller at pc after.
CallCleanup(after) ==
    LET cleaned == cleanup(Process(fs)) IN
    /\ fs' = cleaned.fs
    /\ pc' = IF cleaned.raised THEN "raised" ELSE after
    /\ log' = Append(log, "cleanup")
    /\ UNCHANGED <<sink, created, result, args, local>>

FirstCleanup == pc = "first_call" /\ CallCleanup("second_call")

SecondCleanup == pc = "second_call" /\ CallCleanup("called_twice")

CleanupNext == FirstCleanup \/ SecondCleanup

CleanupSpec == CleanupInit /\ [][CleanupNext]_vars

(***************************************************************************)
(* What the claims speak of                                                *)
(***************************************************************************)

\* The stages of a run that completes, in order.
AllStages ==
    <<"mkdir", "validate", "platform", "filter", "species", "fast_strategy",
      "fast_assembly", "contamination", "fast_measure", "fast_ml", "expert_strategy",
      "expert_assembly", "expert_measure", "expert_ml", "heuristic", "compare",
      "write_csv", "write_json", "move_contigs", "cleanup", "return">>

\* Stage stage has run.
Ran(stage) == \E i \in DOMAIN log : log[i] = stage

\* The last stage that ran.
LastStage == log[Len(log)]

\* Entry e has been printed.
Printed(e) == \E i \in DOMAIN sink : sink[i] = e

\* The final outputs of a run.
FinalOutputs == {CONTIGS_NEW_FILENAME, CSV_FILENAME, JSON_FILENAME}

(***************************************************************************)
(* The claims                                                              *)
(***************************************************************************)

\* C1: with force set a run never halts at a gate, whatever the four gate
\* booleans are: it goes on until it has run every stage through finalization
\* and returned, with contigs.fasta in the output directory and an
\* AssemblySummary as its result. The run is one that can have its output
\* directory: where the path is that of a regular file, os.mkdir raises
\* before the first stage.
C1_ForceRunsToCompletion ==
    (force /\ ~isfile(fs0, OUTPUT_DIRECTORY)) =>
        /\ [](pc \notin {"halted", "raised"})
        /\ <>(/\ pc = "done"
              /\ log = AllStages
              /\ isfile(fs, CONTIGS_NEW_FILENAME)
              /\ result[1] = "AssemblySummary")

\* A forced run has completed although all four gate booleans were false.
C1_Witness ==
    /\ force
    /\ pc = "done"
    /\ local.valid_fastq = FALSE
    /\ ~local.fast_strategy.proceed
    /\ Printed(<<"contamination report", "False">>)
    /\ ~local.expert_strategy.proceed
    /\ result[1] = "AssemblySummary"

\* A step of the gated stage at pc stage, whose boolean is b and whose report
\* is report: it goes on to next exactly when b or force holds, and otherwise
\* halts with the report as the last thing printed and None as the result.
GateStep(stage, next, b, report) ==
    pc = stage =>
        /\ pc' = next <=> (b \/ force)
        /\ pc' = "halted" <=> ~(b \/ force)
        /\ pc' = "halted" =>
            /\ result' = ReturnedNone
            /\ sink' = sink \o report
            /\ report # <<>>
            /\ log' = Append(log, stage)

\* C2: each of the four gated stages continues if and only if its boolean or
\* force holds; otherwise it halts right after its report, returning None; no
\* stage runs after a halt; force does not change during a run.
C2_GateDecision ==
    /\ [][/\ GateStep("validate", "platform", local'.valid_fastq,
                      report_valid_fastq(local'.valid_fastq))
          /\ GateStep("fast_strategy", "fast_assembly", local'.fast_strategy.proceed,
                      report_strategy(local'.fast_strategy))
          /\ GateStep("contamination", "fast_measure", local'.evaluation.success,
                      report_contamination(local'.evaluation))
          /\ GateStep("expert_strategy", "expert_assembly", local'.expert_strategy.proceed,
                      report_strategy(local'.expert_strategy))
          /\ force' = force]_pc
    /\ [](pc = "halted" => ~ENABLED Next)

\* Each gate has halted a run, and each has let a run through on its boolean alone.
C2_Witness ==
    /\ ~force
    /\ pc = "halted"
    /\ LastStage = "expert_strategy"
    /\ ~local.expert_strategy.proceed
    /\ local.valid_fastq = TRUE
    /\ local.fast_strategy.proceed
    /\ Printed(<<"contamination report", "True">>)

\* C3: a run without force that halts at a gate, in an output directory that
\* held no earlier outputs, has never written contigs.fasta, the CSV summary
\* or the JSON file, and returns None, not an AssemblySummary.
C3_HaltWritesNoOutputs ==
    (~force /\ pc = "halted") =>
        /\ created \cap FinalOutputs = {}
        /\ (DOMAIN fs0 \cap FinalOutputs = {} => DOMAIN fs \cap FinalOutputs = {})
        /\ result = ReturnedNone
        /\ ~Ran("write_csv") /\ ~Ran("write_json") /\ ~Ran("move_contigs")

\* A run without force has halted at the last gate, in a directory without earlier outputs.
C3_Witness ==
    /\ ~force
    /\ pc = "halted"
    /\ LastStage = "expert_strategy"
    /\ DOMAIN fs0 \cap FinalOutputs = {}
    /\ isdir(fs, SKESA_DIRECTORY)
    /\ result = ReturnedNone

\* C4: when validation fails and force is not set, the run halts after stage
\* 2 and the only entry printed in the whole run is the message that the
\* reads are not in FASTQ format.
C4_SoleReport ==
    (~force /\ Ran("validate") /\ local.valid_fastq = FALSE) =>
        /\ pc = "halted"
        /\ log = <<"mkdir", "validate">>
        /\ sink = <<NOT_FASTQ>>

\* Validation has failed in a run without force.
C4_Witness ==
    /\ ~force
    /\ Ran("validate")
    /\ local.valid_fastq = FALSE
    /\ pc = "halted"
    /\ Len(sink) = 1

\* C5: without force an assembler is invoked only for a strategy whose
\* proceed flag is true; when the fast strategy says not to proceed the run
\* halts after stage 6 and no assembler has run or made a work directory.
C5_NoAssemblerWithoutProceed ==
    ~force =>
        /\ Ran("fast_assembly") => local.fast_strategy.proceed
        /\ Ran("expert_assembly") => local.expert_strategy.proceed
        /\ (Ran("fast_strategy") /\ ~local.fast_strategy.proceed) =>
            /\ pc = "halted"
            /\ log = SubSeq(AllStages, 1, 6)
            /\ created \cap {SKESA_DIRECTORY, SPADES_DIRECTORY, SKESA_CONTIGS,
                             SPADES_CONTIGS} = {}
            /\ \A p \in {SKESA_DIRECTORY, SPADES_DIRECTORY, SKESA_CONTIGS, SPADES_CONTIGS} :
                p \in DOMAIN fs => p \in DOMAIN fs0 /\ fs[p] = fs0[p]

\* A run without force has halted on a fast strategy that says not to proceed.
C5_Witness ==
    /\ ~force
    /\ Ran("fast_strategy")
    /\ ~local.fast_strategy.proceed
    /\ pc = "halted"
    /\ ~isdir(fs, SKESA_DIRECTORY)

\* Stage earlier ran before the i-th stage of the log.
RanBefore(earlier, i) == \E j \in 1..(i - 1) : log[j] = earlier

\* C6: in every run the contamination evaluation starts only after the fast
\* assembly has been performed, and the expert strategy is derived only after
\* the quality of the fast assembly has been measured, from the metrics that
\* measurement produced for the fast assembler's contigs.
C6_GateOrdering ==
    /\ pc = "contamination" => Ran("fast_assembly")
    /\ pc = "expert_strategy" => Ran("fast_measure")
    /\ \A i \in DOMAIN log :
        /\ log[i] = "contamination" => RanBefore("fast_assembly", i)
        /\ log[i] = "expert_strategy" => RanBefore("fast_measure", i)
    /\ Ran("fast_measure") =>
        local.fast_assembly_quality =
            <<"metrics of", "contigs", "fast", local.fast_strategy.assembler>>
    /\ Ran("expert_strategy") =>
        local.expert_strategy.report =
            <<"expert strategy", local.expert_strategy.assembler,
              Word(local.expert_strategy.proceed)>> \o local.fast_assembly_quality

\* The expert strategy has been derived in a run that the fast strategy and
\* the contamination check would have halted.
C6_Witness ==
    /\ force
    /\ Ran("expert_strategy")
    /\ ~local.fast_strategy.proceed
    /\ Printed(<<"contamination report", "False">>)
    /\ local.fast_assembly_quality = <<"metrics of", "contigs", "fast", "spades">>

\* C7: after a run that completes, the output directory holds contigs.fasta,
\* the CSV summary and the JSON file, and none of the scratch artifacts: the
\* FASTA directory, the filter logfile, the filtered reads, the species output,
\* the measurer's two scratch files and both assembler directories are absent.
C7_CompletedDirectory ==
    pc = "done" =>
        /\ \A p \in FinalOutputs : isfile(fs, p)
        /\ DOMAIN fs \cap ScratchArtifacts = {}
        /\ DOMAIN fs \cap {SKESA_CONTIGS, SPADES_CONTIGS} = {}
        /\ result[1] = "AssemblySummary"

\* A run has completed in a directory that held the scratch of an earlier
\* halted run, with two read files and two different assemblers.
C7_Witness ==
    /\ pc = "done"
    /\ fs0 = HaltedDirectory
    /\ paired
    /\ local.fast_strategy.assembler = "skesa"
    /\ local.expert_strategy.assembler = "spades"
    /\ SPECIES_OUTPUT_FILENAME \in created
    /\ DOMAIN fs \cap ScratchArtifacts = {}

\* C8: after a completed run with force set, the species-estimation output
\* file and the quality report are still in the output directory, next to the
\* CSV summary and contigs.fasta.
C8_TestExpectation ==
    (force /\ pc = "done") =>
        /\ isfile(fs, CSV_FILENAME)
        /\ isfile(fs, CONTIGS_NEW_FILENAME)
        /\ isfile(fs, QUAST_REPORT)
        /\ isfile(fs, SPECIES_OUTPUT_FILENAME)

\* C9: cleanup is idempotent: a call never raises, a second call right after a
\* first leaves the output directory as the first left it, and a first call on
\* a directory without any of the artifacts changes nothing.
C9_CleanupIdempotent ==
    [][/\ pc' # "raised"
       /\ pc = "second_call" => fs' = fs
       /\ (pc = "first_call" /\ DOMAIN fs \cap ScratchArtifacts = {}) => fs' = fs]_pc

\* cleanup has been called twice on a directory that held every artifact, and
\* the first call removed them.
C9_Witness ==
    /\ pc = "called_twice"
    /\ ScratchArtifacts \subseteq DOMAIN fs0
    /\ DOMAIN fs \cap ScratchArtifacts = {}
    /\ log = <<"cleanup", "cleanup">>

\* C10: cleanup runs only after the contigs file has been moved to its final
\* path, and never in a run that halts: when a run without force halts, every
\* path the completed stages wrote, and every path that was there before,
\* still exists.
C10_CleanupOnlyAfterMove ==
    /\ pc = "cleanup" => (Ran("move_contigs") /\ isfile(fs, CONTIGS_NEW_FILENAME))
    /\ \A i \in DOMAIN log : log[i] = "cleanup" => RanBefore("move_contigs", i)
    /\ (~force /\ pc = "halted") =>
        /\ ~Ran("cleanup")
        /\ created \subseteq DOMAIN fs
        /\ DOMAIN fs0 \subseteq DOMAIN fs

\* A run without force has halted at the last gate with the scratch of the
\* seven stages before it in place.
C10_Witness ==
    /\ ~force
    /\ pc = "halted"
    /\ LastStage = "expert_strategy"
    /\ {LOGFILE_FILENAME, FWD_FILTERED_FILENAME, SPECIES_OUTPUT_FILENAME, FASTA_DIRECTORY,
        MEASURER_OUTPUT_FILENAME, MEASURER_ERROR_FILENAME} \subseteq created
    /\ created \subseteq DOMAIN fs


\* Entry e is among the entries this step prints.
Emits(e) == \E i \in (Len(sink) + 1)..Len(sink') : sink'[i] = e

\* The entries this step prints.
Emitted == SubSeq(sink', Len(sink) + 1, Len(sink'))

\* C11 as stated: at each of the four gated stages, a false gate boolean makes
\* the stage's report say that the assembly was unable to proceed.
C11_EveryGateSaysUnable ==
    [][/\ (pc = "validate" /\ ~local'.valid_fastq) => Emits(UNABLE_TO_PROCEED)
       /\ (pc = "fast_strategy" /\ ~local'.fast_strategy.proceed) => Emits(UNABLE_TO_PROCEED)
       /\ (pc = "contamination" /\ ~local'.evaluation.success) => Emits(UNABLE_TO_PROCEED)
       /\ (pc = "expert_strategy" /\ ~local'.expert_strategy.proceed)
            => Emits(UNABLE_TO_PROCEED)]_pc

\* C11 as amended: the reports of the fast strategy, of the contamination check
\* and of the expert strategy end with the line that the assembly was unable
\* to proceed exactly when the stage's boolean is false; the report of a
\* failed validation is the one line that the reads are not in FASTQ format.
C11_StrategyAndContaminationSayUnable ==
    [][/\ pc = "validate" =>
            /\ ~local'.valid_fastq => Emitted = <<NOT_FASTQ>>
            /\ ~Emits(UNABLE_TO_PROCEED)
       /\ pc = "fast_strategy" =>
            (Emitted[Len(Emitted)] = UNABLE_TO_PROCEED <=> ~local'.fast_strategy.proceed)
       /\ pc = "contamination" =>
            (Emitted[Len(Emitted)] = UNABLE_TO_PROCEED <=> ~local'.evaluation.success)
       /\ pc = "expert_strategy" =>
            (Emitted[Len(Emitted)] = UNABLE_TO_PROCEED <=> ~local'.expert_strategy.proceed)]_pc

\* A forced run has passed all four gates with every boolean false, and the
\* line was printed for three of them.
C11_Witness ==
    /\ force
    /\ Ran("expert_strategy")
    /\ ~local.valid_fastq
    /\ ~local.fast_strategy.proceed
    /\ Printed(<<"contamination report", "False">>)
    /\ ~local.expert_strategy.proceed
    /\ Cardinality({i \in DOMAIN sink : sink[i] = UNABLE_TO_PROCEED}) = 3


\* An evaluation of the given kind was reported with success = False.
FailedReport(kind) ==
    \E i \in DOMAIN sink :
        /\ Len(sink[i]) >= 2
        /\ sink[i][1] = kind
        /\ sink[i][2] = "False"

\* C12 as stated: without force, an evaluation with success = False, be it the
\* contamination evaluation, a machine learning evaluation or the heuristic
\* evaluation, halts the pipeline.
C12_EveryEvaluationHalts ==
    ~force =>
        /\ FailedReport("contamination report") => pc = "halted"
        /\ FailedReport("machine learning report") => pc = "halted"
        /\ FailedReport("heuristic report") => pc = "halted"

\* C12 as amended: without force, a contamination evaluation with
\* success = False halts the pipeline at the contamination stage and no later
\* stage runs; the machine learning and heuristic evaluations are only
\* reported, and the run never halts at their stages.
C12_ContaminationEvaluationHalts ==
    /\ (~force /\ FailedReport("contamination report")) =>
            /\ pc = "halted"
            /\ LastStage = "contamination"
            /\ result = ReturnedNone
    /\ pc = "halted" => LastStage \notin {"fast_ml", "expert_ml", "heuristic"}
    /\ (Ran("fast_ml") /\ LastStage = "fast_ml") => pc = "expert_strategy"
    /\ (Ran("expert_ml") /\ LastStage = "expert_ml") => pc = "heuristic"
    /\ (Ran("heuristic") /\ LastStage = "heuristic") => pc = "compare"

\* An unforced run halted at the contamination stage on a failed evaluation.
C12_Witness ==
    /\ ~force
    /\ pc = "halted"
    /\ LastStage = "contamination"
    /\ FailedReport("contamination report")


\* The sink after this step is the sink before it with entries added at its end.
SinkOnlyGrows ==
    /\ Len(sink') >= Len(sink)
    /\ SubSeq(sink', 1, Len(sink)) = sink

\* The paths this step takes out of the file system.
Removed == DOMAIN fs \ DOMAIN fs'

\* C13 as stated: the sink only grows, and no stage modifies, moves, overwrites
\* or deletes an artifact that an earlier stage of the run produced.
C13_StrictlyAdditive ==
    [][/\ SinkOnlyGrows
       /\ \A p \in created : p \in DOMAIN fs' /\ fs'[p] = fs[p]]_pc

\* C13 as amended: the sink only grows, and up to the finalization no stage
\* takes a path out of the output directory; the finalization moves the contigs
\* of the last assembler to contigs.fasta and then deletes the scratch
\* artifacts and what lies below them, and nothing else.
C13_AdditiveUntilFinalization ==
    [][/\ SinkOnlyGrows
       /\ pc \notin {"move_contigs", "cleanup"} => Removed = {}
       /\ pc = "move_contigs" => Removed \subseteq {ContigsOf(local.assembler)}
       /\ pc = "cleanup" =>
            /\ Removed \subseteq
                   ScratchArtifacts \cup UNION {Under(d) : d \in ScratchArtifacts}
            /\ \A p \in DOMAIN fs' : fs'[p] = fs[p]]_pc

\* A completed run: reports were printed, and artifacts the stages produced
\* are gone from the output directory.
C13_Witness ==
    /\ pc = "done"
    /\ Len(sink) > 5
    /\ ContigsOf(local.assembler) \in created
    /\ ContigsOf(local.assembler) \notin DOMAIN fs
    /\ FWD_FILTERED_FILENAME \in created
    /\ FWD_FILTERED_FILENAME \notin DOMAIN fs


\* C14: the species list is never empty; when the name of its first species is
\* "Unknown" the report carries the warning that a species could not be
\* determined, and the run goes on to derive the fast strategy, with and
\* without force.
C14_UnknownWarnsAndProceeds ==
    Ran("species") =>
        /\ Len(local.species_list) >= 1
        /\ local.species_list[1] = "Unknown" =>
            /\ Printed(UNKNOWN_SPECIES)
            /\ pc # "halted" \/ LastStage # "species"
            /\ LastStage = "species" => pc = "fast_strategy"


\* C15: the machine learning evaluations, the heuristic evaluation and the
\* comparison never gate: whatever they find and whatever force is, the next
\* stage follows; a run halts only at the validation, the fast strategy, the
\* contamination check or the expert strategy.
C15_ReportOnlyStagesNeverGate ==
    [][/\ pc = "fast_ml" => pc' = "expert_strategy"
       /\ pc = "expert_ml" => pc' = "heuristic"
       /\ pc = "heuristic" => pc' = "compare"
       /\ pc = "compare" => pc' = "write_csv"
       /\ pc' = "halted" =>
            pc \in {"validate", "fast_strategy", "contamination", "expert_strategy"}]_pc

\* An unforced run completed although both machine learning evaluations and
\* the heuristic evaluation failed.
C15_Witness ==
    /\ ~force
    /\ pc = "done"
    /\ ~local.evaluation.success
    /\ ~local.machine_learning_evaluation.success
    /\ ~local.heuristic_evaluation.success


\* C16: determine_platform returns the named platform when a name is given and
\* recognized, without looking at the reads; it identifies the platform from
\* the reads exactly when the name is absent or unrecognized; what it returns
\* is a Platform, Unidentifiable included; the run does not halt on it, and
\* the platform is resolved once per run.
C16_PlatformResolution ==
    Ran("platform") =>
        LET recognized == /\ platform_name \notin {None, Str("")}
                          /\ identify_name(platform_name[1]) # "Unidentifiable" IN
        /\ local.platform \in Platforms
        /\ recognized =>
            /\ local.platform = identify_name(platform_name[1])
            /\ ~Printed(ATTEMPTING_TO_IDENTIFY)
        /\ platform_name = Str("illumina") => local.platform = "Illumina"
        /\ Printed(ATTEMPTING_TO_IDENTIFY) <=> ~recognized
        /\ Cardinality({i \in DOMAIN log : log[i] = "platform"}) = 1
        /\ LastStage = "platform" => pc = "filter"

\* A run given a recognized platform name completed without looking at the
\* reads for the platform.
C16_Witness ==
    /\ pc = "done"
    /\ platform_name = Str("illumina")
    /\ local.platform = "Illumina"
    /\ ~Printed(ATTEMPTING_TO_IDENTIFY)


\* How many times the stage has run.
Times(stage) == Cardinality({i \in DOMAIN log : log[i] = stage})

\* C17: no stage is retried: the stages that have run are the first stages of
\* the pipeline, each once and in order; the assembler runs at most twice,
\* once fast and once expert; a measurement comes only after its assembly and
\* at most once, and in a completed run once per assembly; after a halt
\* nothing runs.
C17_NoStageRetried ==
    /\ [](/\ Len(log) <= Len(AllStages)
          /\ log = SubSeq(AllStages, 1, Len(log))
          /\ \A i, j \in DOMAIN log : log[i] = log[j] => i = j
          /\ Times("fast_assembly") + Times("expert_assembly") <= 2
          /\ Times("fast_measure") <= Times("fast_assembly")
          /\ Times("expert_measure") <= Times("expert_assembly")
          /\ pc = "done" =>
                /\ Times("fast_assembly") = 1 /\ Times("fast_measure") = 1
                /\ Times("expert_assembly") = 1 /\ Times("expert_measure") = 1)
    /\ [][pc # "halted"]_pc

\* An unforced run halted at the expert strategy after one assembly and one
\* measurement.
C17_Witness ==
    /\ ~force
    /\ pc = "halted"
    /\ LastStage = "expert_strategy"
    /\ Times("expert_strategy") = 1
    /\ Times("fast_assembly") = 1
    /\ Times("fast_measure") = 1


\* C18: in a completed run the final outputs come from the expert pass:
\* contigs.fasta holds the contigs the expert strategy's assembler wrote in the
\* expert assembly, the summary returned carries the top species, the metrics
\* of the expert assembly and the path of contigs.fasta, and the CSV holds the
\* fast assembler's name and then the expert assembler's name, followed by the
\* metrics of the fast assembly and then those of the expert assembly.
C18_FinalOutputsFromExpertPass ==
    pc = "done" =>
        LET fast == local.fast_strategy.assembler
            expert == local.expert_strategy.assembler
        IN  /\ isfile(fs, CONTIGS_NEW_FILENAME)
            /\ fs[CONTIGS_NEW_FILENAME] = <<"contigs", "expert", expert>>
            /\ result = <<"AssemblySummary", local.species_list[1], CONTIGS_NEW_FILENAME,
                          "metrics of", "contigs", "expert", expert>>
            /\ isfile(fs, CSV_FILENAME)
            /\ fs[CSV_FILENAME] = <<"csv", fast, expert,
                                    "metrics of", "contigs", "fast", fast,
                                    "metrics of", "contigs", "expert", expert>>

\* A completed run whose fast assembly was made by skesa and whose expert
\* assembly was made by spades.
C18_Witness ==
    /\ pc = "done"
    /\ local.fast_strategy.assembler = "skesa"
    /\ local.expert_strategy.assembler = "spades"
    /\ fs[CONTIGS_NEW_FILENAME] = <<"contigs", "expert", "spades">>


\* C19: the last steps come in this order: the CSV and the JSON file are
\* written, then the contigs are renamed to contigs.fasta, then cleanup runs;
\* cleanup finds the three final outputs in place and leaves each of them as it
\* is, so that contigs.fasta, the CSV and the JSON file exist when the run
\* returns.
C19_FinalizationOrder ==
    /\ [](/\ \A i \in DOMAIN log :
                /\ log[i] = "write_json" => RanBefore("write_csv", i)
                /\ log[i] = "move_contigs" => RanBefore("write_json", i)
                /\ log[i] = "cleanup" => RanBefore("move_contigs", i)
                /\ log[i] = "return" => RanBefore("cleanup", i)
          /\ pc \in {"return", "done"} =>
                /\ \A p \in FinalOutputs : isfile(fs, p)
                /\ fs[CONTIGS_NEW_FILENAME][1] = "contigs"
                /\ DOMAIN fs \cap {SKESA_DIRECTORY, SPADES_DIRECTORY} = {})
    /\ [][pc = "cleanup" =>
            \A p \in FinalOutputs : isfile(fs, p) /\ isfile(fs', p) /\ fs'[p] = fs[p]]_pc

\* A run has returned: the assembler directories are gone and the three final
\* outputs of this run are in place.
C19_Witness ==
    /\ pc = "done"
    /\ Ran("cleanup")
    /\ FinalOutputs \subseteq created
    /\ \A p \in FinalOutputs : isfile(fs, p)
    /\ ContigsOf(local.assembler) \notin DOMAIN fs


\* C20: a run without force that halts at the validation leaves the file
\* system as it found it, but for the output directory, which it makes when it
\* was not there; a directory that was there keeps all it held, the
\* contigs.fasta, CSV and JSON file of an earlier completed run included.
C20_ValidationHaltKeepsDirectory ==
    (~force /\ pc = "halted" /\ LastStage = "validate") =>
        /\ isdir(fs, OUTPUT_DIRECTORY)
        /\ DOMAIN fs = DOMAIN fs0 \cup {OUTPUT_DIRECTORY}
        /\ \A p \in DOMAIN fs0 : fs[p] = fs0[p]
        /\ created \subseteq {OUTPUT_DIRECTORY}
        /\ isdir(fs0, OUTPUT_DIRECTORY) => (fs = fs0 /\ created = {})
        /\ fs0 = CompletedDirectory =>
                \A p \in FinalOutputs : isfile(fs, p) /\ fs[p] = <<"earlier run">>

\* An unforced run on invalid reads has halted in the output directory of an
\* earlier completed run.
C20_Witness ==
    /\ ~force
    /\ pc = "halted"
    /\ LastStage = "validate"
    /\ ~local.valid_fastq
    /\ fs0 = CompletedDirectory
    /\ fs[CONTIGS_NEW_FILENAME] = <<"earlier run">>

====
